---- MODULE Spec2Model ----
(***************************************************************************)
(* Model of catalog/python_bridge.py: the AEPCatalogBridge that runs the   *)
(* Go AEP parser as a subprocess, caches its output per resolved path,     *)
(* catalogs directories, converts raw metadata to the mobot format and     *)
(* aggregates a report.                                                    *)
(***************************************************************************)
EXTENDS Integers, Sequences, FiniteSets, TLC

(***************************************************************************)
(* Bounds                                                                  *)
(***************************************************************************)
NumFiles == 2      \* paths handed to parse_aep
DirSize == 3       \* files in the directory handed to catalog_directory
NumThreads == 2    \* threads sharing one bridge
MaxStamp == 2      \* distinct readings of the engine's clock (parsed_at)

FilePool == <<"a.aep", "b.aep", "c.aep", "d.aep">>
ThreadPool == <<"t1", "t2", "t3", "t4">>

Files == {FilePool[i] : i \in 1..NumFiles}
DirFiles == {FilePool[i] : i \in 1..DirSize}
Threads == {ThreadPool[i] : i \in 1..NumThreads}
MainThread == ThreadPool[1]
Stamps == 1..MaxStamp
TmpNames == 1..NumThreads

(***************************************************************************)
(* The environment: what each path is on disk.                             *)
(*   dangling : a directory entry whose target does not exist              *)
(*   good     : the engine parses it and writes complete JSON              *)
(*   nocaps   : the engine writes JSON without the "capabilities" field    *)
(*   garbled  : the engine exits 0 but its output is not JSON              *)
(*   corrupt  : the engine exits non-zero with a diagnostic                *)
(***************************************************************************)
FileStates == {"dangling", "good", "nocaps", "garbled", "corrupt"}
\* the states parse_aep tells apart (it does not look into the JSON document)
ParseFileStates == {"dangling", "good", "garbled", "corrupt"}

VARIABLES
    fstate,         \* [Files -> FileStates]
    enginePresent,  \* the executable at go_parser_path can be started
    cache,          \* self.cache: resolved path -> metadata
    tmpfs,          \* temporary files on disk: name -> content
    pc,             \* position of each thread
    path,           \* parse_aep: aep_path (resolved)
    uc,             \* parse_aep: use_cache
    tmp,            \* parse_aep: tmp_path (0: none)
    meta,           \* parse_aep: metadata read from the output file
    proc,           \* parse_aep: return code and stderr of the engine process
    pend,           \* parse_aep: value or exception waiting for the finally
    ret,            \* what the last finished call returned or raised
    invoked,        \* the running/last call started the engine process
    created,        \* the running/last call created a temporary file
    lastOk,         \* path -> metadata last returned by a use_cache call
    caller,         \* who called parse_aep: "api" or "catalog"
    cd_listing,     \* catalog_directory: the files in the order rglob yields them
    cd_todo,        \* catalog_directory: files not yet visited
    cd_results,     \* catalog_directory: results
    cd_printed,     \* catalog_directory: lines printed by the except clause
    cd_ret,         \* what the last catalog_directory call returned
    conv_in,        \* convert_to_mobot_format: metadata
    conv_seed,      \* the interpreter's string hash seed (orders a set)
    conv_out,       \* convert_to_mobot_format: the entry returned or the error raised
    conv_again,     \* a second application to conv_in: the process's seed, the outcome
    catalog_data,   \* the list of entries handed to generate_catalog_report
    report,         \* the report written as JSON
    markdown,       \* the rendered markdown report
    cmd,            \* __main__: the command line being executed
    m_exit,         \* __main__: how the process ended
    outfile,        \* __main__ catalog: what was written to --output
    stdout,         \* __main__: the summary line printed last
    disk,           \* the engine's paths that exist (executables, main.go)
    go_tool,        \* what running "go build" does on this machine
    go_parser_path, \* __init__: self.go_parser_path, or the exception raised
    located         \* __init__: what the last construction did to find it

envVars == <<fstate, enginePresent>>
threadVars == <<pc, path, uc, tmp, meta, proc, pend, ret, invoked, created>>
cdVars == <<cd_listing, cd_todo, cd_results, cd_printed, cd_ret>>
\* what parse_aep never touches
convVars == <<conv_in, conv_seed, conv_out, conv_again>>
aggVars == <<catalog_data, report, markdown>>
mainVars == <<cmd, m_exit, outfile, stdout>>
locVars == <<disk, go_tool, go_parser_path, located>>
\* what neither parse_aep nor catalog_directory touches
beyond == <<convVars, aggVars, mainVars, locVars>>
outer == <<caller, cdVars, beyond>>
vars == <<fstate, enginePresent, cache, tmpfs, pc, path, uc, tmp, meta, proc, pend,
          ret, invoked, created, lastOk, caller, cdVars, convVars, aggVars,
          mainVars, locVars>>

(***************************************************************************)
(* Values                                                                  *)
(***************************************************************************)
NoMeta == <<>>
\* Python values that are not metadata: None and a list
NoValue == [type |-> "NoneType", items |-> <<>>]
PyList(items) == [type |-> "list", items |-> items]
NoReport == [written |-> FALSE]
NoMarkdown == [written |-> FALSE]
NoCmd == [command |-> "none", mobot_format |-> FALSE, output |-> FALSE]
NoExit == [code |-> -1, error |-> ""]
NoRet == [kind |-> "none", value |-> NoMeta, etype |-> "", msg |-> <<>>]
Ok(m) == [kind |-> "ok", value |-> m, etype |-> "", msg |-> <<>>]
Err(t, m) == [kind |-> "err", value |-> NoMeta, etype |-> t, msg |-> m]

\* (variant: a cached path counts as existing, the cache is asked first)
Exists_CacheFirst(f) == fstate[f] # "dangling" \/ f \in DOMAIN cache

\* Path(aep_path).resolve().exists()
Exists(f) == fstate[f] # "dangling"

(***************************************************************************)
(* Raw metadata: the JSON document written by the Go parser, as a function *)
(* from the keys that are present to their values.                         *)
(***************************************************************************)
RawFlags == <<"has_text_replacement", "has_image_replacement",
              "has_color_control", "has_audio_replacement",
              "has_data_driven", "has_expressions", "is_modular">>

AllCaps(b) == [k \in {RawFlags[i] : i \in 1..Len(RawFlags)} |-> b]

MkRaw(f, s, comps, caps, cats, tgs, texts, media, opps, effs) ==
    [file_path |-> f, file_name |-> f, parsed_at |-> s,
     compositions |-> comps, capabilities |-> caps,
     categories |-> cats, tags |-> tgs,
     text_layers |-> texts, media_assets |-> media, opportunities |-> opps,
     bit_depth |-> 8, expression_engine |-> "javascript", effects |-> effs]

Without(m, K) == [k \in (DOMAIN m) \ K |-> m[k]]

Comp(n, w, h, l) == [name |-> n, width |-> w, height |-> h, layer_count |-> l]
TextLayer(n) == [layer_name |-> n, source_text |-> "Title", comp_id |-> "Main"]
Media(n, p) == [name |-> n, type |-> "image", is_placeholder |-> p]
Opp(d) == [type |-> "text", description |-> d, difficulty |-> "easy",
           impact |-> "high"]
Effect(n) == [name |-> n]

\* what the engine extracts from a parseable project file
EngineMetadata(f, s) ==
    MkRaw(f, s, <<Comp("Main", 1920, 1080, 2)>>, AllCaps(TRUE),
          <<"Promo">>, <<"text">>, <<TextLayer("title")>>,
          <<Media("logo", TRUE), Media("bg", FALSE)>>, <<Opp("swap title")>>,
          <<Effect("Glow")>>)

(***************************************************************************)
(* The engine process (cmd/parser/main.go, run by subprocess.run).         *)
(***************************************************************************)
Json(doc) == [fmt |-> "json", doc |-> doc]
EmptyFile == [fmt |-> "empty", doc |-> NoMeta]
Garbage == [fmt |-> "text", doc |-> NoMeta]

ParseFailedDiag == "Failed to parse project"
Warning == "warning: unsupported effect"

\* exit status of the engine on path f
EngineReturnCode(f) == IF fstate[f] \in {"dangling", "corrupt"} THEN 1 ELSE 0

\* what a successful engine run writes to -output
EngineOutput(f, s) ==
    CASE fstate[f] = "good" -> Json(EngineMetadata(f, s))
      [] fstate[f] = "nocaps" -> Json(Without(EngineMetadata(f, s), {"capabilities"}))
      [] OTHER -> Garbage

\* json.load on the content of the output file
JsonLoads(c) == IF c.fmt = "json" THEN Ok(c.doc) ELSE Err("JSONDecodeError", <<"Expecting value">>)

NoAgain == [seed |-> 0, out |-> NoRet]
NoProc == [ran |-> FALSE, returncode |-> 0, stderr |-> ""]

(***************************************************************************)
(* AEPCatalogBridge.parse_aep, one step per statement that touches the     *)
(* cache, the file system or the engine.                                   *)
(***************************************************************************)
Put(d, k, v) == [x \in (DOMAIN d) \cup {k} |-> IF x = k THEN v ELSE d[x]]
Remove(d, k) == [x \in (DOMAIN d) \ {k} |-> d[x]]

\* the call returns r (or raises it) to its caller
Return(t, r) ==
    /\ ret' = [ret EXCEPT ![t] = r]
    /\ pc' = [pc EXCEPT ![t] = IF caller[t] = "catalog" THEN "cd_after" ELSE "idle"]
    /\ lastOk' = IF uc[t] /\ r.kind = "ok" THEN Put(lastOk, path[t], r.value)
                 ELSE lastOk

\* entering parse_aep(aep_path, use_cache): fresh locals
Call(t, f, useCache) ==
    /\ pc' = [pc EXCEPT ![t] = "p_exists"]
    /\ path' = [path EXCEPT ![t] = f]
    /\ uc' = [uc EXCEPT ![t] = useCache]
    /\ tmp' = [tmp EXCEPT ![t] = 0]
    /\ meta' = [meta EXCEPT ![t] = NoMeta]
    /\ proc' = [proc EXCEPT ![t] = NoProc]
    /\ pend' = [pend EXCEPT ![t] = NoRet]
    /\ ret' = [ret EXCEPT ![t] = NoRet]
    /\ invoked' = [invoked EXCEPT ![t] = FALSE]
    /\ created' = [created EXCEPT ![t] = FALSE]

\* parse_aep(aep_path, use_cache) is called by a user of the bridge
ParseAep(t, f, useCache) ==
    /\ pc[t] = "idle"
    /\ Call(t, f, useCache)
    /\ caller' = [caller EXCEPT ![t] = "api"]
    /\ UNCHANGED <<envVars, cache, tmpfs, lastOk, cdVars, beyond>>

\* if not aep_path.exists(): raise FileNotFoundError
P_Exists(t) ==
    /\ pc[t] = "p_exists"
    /\ UNCHANGED outer
    /\ IF Exists(path[t])
       THEN /\ pc' = [pc EXCEPT ![t] = "p_cache"]
            /\ UNCHANGED <<ret, lastOk>>
       ELSE Return(t, Err("FileNotFoundError", <<"AEP file not found: ", path[t]>>))
    /\ UNCHANGED <<envVars, cache, tmpfs, path, uc, tmp, meta, proc, pend,
                   invoked, created>>

\* if use_cache and cache_key in self.cache: return self.cache[cache_key]
\* (variant: the cache is never consulted)
CacheHit_NoLookup(t) == FALSE

CacheHit(t) == uc[t] /\ path[t] \in DOMAIN cache

P_Cache(t) ==
    /\ pc[t] = "p_cache"
    /\ UNCHANGED outer
    /\ IF CacheHit(t)
       THEN Return(t, Ok(cache[path[t]]))
       ELSE /\ pc' = [pc EXCEPT ![t] = "p_mktemp"]
            /\ UNCHANGED <<ret, lastOk>>
    /\ UNCHANGED <<envVars, cache, tmpfs, path, uc, tmp, meta, proc, pend,
                   invoked, created>>

\* with tempfile.NamedTemporaryFile(delete=False): a new, empty file under
\* a name no existing file has (names carry no meaning: the least free one)
FreshName == CHOOSE n \in TmpNames \ DOMAIN tmpfs :
                \A k \in TmpNames \ DOMAIN tmpfs : n <= k

P_Mktemp(t) ==
    /\ pc[t] = "p_mktemp"
    /\ UNCHANGED outer
    /\ tmp' = [tmp EXCEPT ![t] = FreshName]
    /\ tmpfs' = Put(tmpfs, FreshName, EmptyFile)
    /\ created' = [created EXCEPT ![t] = TRUE]
    /\ pc' = [pc EXCEPT ![t] = "p_run"]
    /\ UNCHANGED <<envVars, cache, path, uc, meta, proc, pend, ret, invoked,
                   lastOk>>

\* subprocess.run([...], capture_output=True, text=True, check=True), with
\* the except clause that turns CalledProcessError into RuntimeError
\* (variant: any text on stderr counts as a failure)
RunFails_OnStderr(p) == p.returncode # 0 \/ p.stderr # ""

RunFails(p) == p.returncode # 0

P_Run(t) ==
    /\ pc[t] = "p_run"
    /\ UNCHANGED outer
    /\ invoked' = [invoked EXCEPT ![t] = TRUE]
    /\ IF ~enginePresent
       THEN /\ pend' = [pend EXCEPT ![t] =
                   Err("FileNotFoundError", <<"No such file or directory: ", "aep_parser">>)]
            /\ pc' = [pc EXCEPT ![t] = "p_finally"]
            /\ UNCHANGED <<tmpfs, proc>>
       ELSE \E s \in Stamps, warn \in {"", Warning} :
              LET p == [ran |-> TRUE, returncode |-> EngineReturnCode(path[t]),
                        stderr |-> IF EngineReturnCode(path[t]) # 0
                                   THEN ParseFailedDiag ELSE warn]
              IN /\ proc' = [proc EXCEPT ![t] = p]
                 /\ IF RunFails(p)
                    THEN /\ pend' = [pend EXCEPT ![t] =
                                Err("RuntimeError", <<"Go parser failed: ", p.stderr>>)]
                         /\ pc' = [pc EXCEPT ![t] = "p_finally"]
                         /\ UNCHANGED tmpfs
                    ELSE /\ tmpfs' = Put(tmpfs, tmp[t], EngineOutput(path[t], s))
                         /\ pc' = [pc EXCEPT ![t] = "p_read"]
                         /\ UNCHANGED pend
    /\ UNCHANGED <<envVars, cache, path, uc, tmp, meta, ret, created, lastOk>>

\* with open(tmp_path) as f: metadata = json.load(f)
P_Read(t) ==
    /\ pc[t] = "p_read"
    /\ UNCHANGED outer
    /\ LET r == IF tmp[t] \in DOMAIN tmpfs THEN JsonLoads(tmpfs[tmp[t]])
                ELSE Err("FileNotFoundError", <<"No such file or directory: ", "tmp">>)
       IN IF r.kind = "ok"
          THEN /\ meta' = [meta EXCEPT ![t] = r.value]
               /\ pc' = [pc EXCEPT ![t] = "p_store"]
               /\ UNCHANGED pend
          ELSE /\ pend' = [pend EXCEPT ![t] = r]
               /\ pc' = [pc EXCEPT ![t] = "p_finally"]
               /\ UNCHANGED meta
    /\ UNCHANGED <<envVars, cache, tmpfs, path, uc, tmp, proc, ret, invoked,
                   created, lastOk>>

\* if use_cache: self.cache[cache_key] = metadata; return metadata
\* (variant: the result is stored whether or not use_cache is set)
CacheAfterStore_Always(t) == Put(cache, path[t], meta[t])

CacheAfterStore(t) == IF uc[t] THEN Put(cache, path[t], meta[t]) ELSE cache

P_Store(t) ==
    /\ pc[t] = "p_store"
    /\ UNCHANGED outer
    /\ cache' = CacheAfterStore(t)
    /\ pend' = [pend EXCEPT ![t] = Ok(meta[t])]
    /\ pc' = [pc EXCEPT ![t] = "p_finally"]
    /\ UNCHANGED <<envVars, tmpfs, path, uc, tmp, meta, proc, ret, invoked,
                   created, lastOk>>

\* finally: if os.path.exists(tmp_path): os.unlink(tmp_path)
\* (variant: the unlink sits at the end of the try block, not in a finally)
TmpAfterFinally_OnSuccess(t) ==
    IF tmp[t] \in DOMAIN tmpfs /\ pend[t].kind = "ok" THEN Remove(tmpfs, tmp[t])
    ELSE tmpfs

TmpAfterFinally(t) ==
    IF tmp[t] \in DOMAIN tmpfs THEN Remove(tmpfs, tmp[t]) ELSE tmpfs

P_Finally(t) ==
    /\ pc[t] = "p_finally"
    /\ UNCHANGED outer
    /\ tmpfs' = TmpAfterFinally(t)
    /\ Return(t, pend[t])
    /\ tmp' = [tmp EXCEPT ![t] = 0]
    /\ meta' = [meta EXCEPT ![t] = NoMeta]
    /\ pend' = [pend EXCEPT ![t] = NoRet]
    /\ proc' = [proc EXCEPT ![t] = NoProc]
    /\ UNCHANGED <<envVars, cache, path, uc, invoked, created>>

ParseStep(t) ==
    \/ P_Exists(t) \/ P_Cache(t) \/ P_Mktemp(t) \/ P_Run(t)
    \/ P_Read(t) \/ P_Store(t) \/ P_Finally(t)

(***************************************************************************)
(* The environment between calls: project files are replaced, removed or   *)
(* damaged, the engine executable disappears or comes back.                *)
(***************************************************************************)
AllIdle == \A t \in Threads : pc[t] = "idle"

SetFile(f, st) ==
    /\ AllIdle
    /\ fstate[f] # st
    /\ fstate' = [fstate EXCEPT ![f] = st]
    /\ UNCHANGED <<enginePresent, cache, tmpfs, threadVars, lastOk, outer>>

SetEngine ==
    /\ AllIdle
    /\ enginePresent' = ~enginePresent
    /\ UNCHANGED <<fstate, cache, tmpfs, threadVars, lastOk, outer>>

(***************************************************************************)
(* AEPCatalogBridge.__init__, _find_go_parser, _build_go_parser: where the *)
(* engine executable is taken from.  Paths are written relative to the     *)
(* directory above catalog/.                                               *)
(***************************************************************************)
PossiblePaths == <<"catalog/aep_parser", "catalog/bin/aep_parser",
                   "aep_parser", "bin/aep_parser">>
ParserMain == "catalog/cmd/parser/main.go"
OutputPath == "catalog/bin/aep_parser"
EnginePaths == {PossiblePaths[i] : i \in DOMAIN PossiblePaths} \cup {ParserMain}

\* "go build" exits 0, exits non-zero, or "go" is not on the PATH
GoTools == {"ok", "fails", "absent"}

\* the go_parser_path argument: None, an empty string, a path
NoArg == "None"
CustomPath == "/opt/aep/aep_parser"
ParserArgs == {NoArg, "", CustomPath}
\* Python truthiness, as tested by `go_parser_path or ...`
Truthy(arg) == arg \notin {NoArg, ""}

NoPath == [kind |-> "none", path |-> "", etype |-> "", msg |-> <<>>]
PathIs(p) == [kind |-> "path", path |-> p, etype |-> "", msg |-> <<>>]
Raises(t, m) == [kind |-> "raise", path |-> "", etype |-> t, msg |-> m]

\* str(CalledProcessError): the command and its exit status; the output of
\* the build is not captured
CalledProcessErrorText == "Command '['go', 'build', ...]' returned non-zero exit status 1."
\* subprocess.run raises this itself when the program cannot be started
GoNotFoundText == "[Errno 2] No such file or directory: 'go'"

\* _build_go_parser on a disk d: the outcome, the disk afterwards and the
\* paths written
BuildGoParser(d, go) ==
    LET main_written == IF ParserMain \in d THEN {} ELSE {ParserMain}
        d1 == d \cup main_written
    IN  CASE go = "ok" ->
                [out |-> PathIs(OutputPath), disk |-> d1 \cup {OutputPath},
                 wrote |-> main_written \cup {OutputPath}, built |-> TRUE]
          [] go = "fails" ->
                [out |-> Raises("RuntimeError",
                                <<"Failed to build Go parser: ", CalledProcessErrorText>>),
                 disk |-> d1, wrote |-> main_written, built |-> TRUE]
          [] go = "absent" ->
                [out |-> Raises("FileNotFoundError", <<GoNotFoundText>>),
                 disk |-> d1, wrote |-> main_written, built |-> TRUE]

\* the index of the first of possible_paths that exists, 0 if none does
FirstExisting(d) ==
    LET I == {i \in DOMAIN PossiblePaths : PossiblePaths[i] \in d}
    IN  IF I = {} THEN 0 ELSE CHOOSE i \in I : \A j \in I : i <= j

FindGoParser(d, go) ==
    IF FirstExisting(d) # 0
    THEN [out |-> PathIs(PossiblePaths[FirstExisting(d)]), disk |-> d,
          wrote |-> {}, built |-> FALSE]
    ELSE BuildGoParser(d, go)

\* go_parser_path or self._find_go_parser()
Locate(arg, d, go) ==
    IF Truthy(arg)
    THEN [out |-> PathIs(arg), disk |-> d, wrote |-> {}, built |-> FALSE]
    ELSE FindGoParser(d, go)

NoLocate == [done |-> FALSE, arg |-> NoArg, before |-> {}, go |-> "ok",
             searched |-> FALSE, built |-> FALSE, wrote |-> {}]

\* AEPCatalogBridge(go_parser_path=arg)
NewBridge(arg) ==
    LET r == Locate(arg, disk, go_tool)
    IN  /\ go_parser_path' = r.out
        /\ disk' = r.disk
        /\ located' = [done |-> TRUE, arg |-> arg, before |-> disk,
                       go |-> go_tool, searched |-> ~Truthy(arg),
                       built |-> r.built, wrote |-> r.wrote]
        /\ cache' = <<>>
        /\ UNCHANGED <<envVars, tmpfs, threadVars, lastOk, caller, cdVars,
                       convVars, aggVars, mainVars, go_tool>>

\* the bridge of the other specifications was given its engine's path
InitLocated ==
    /\ disk = {}
    /\ go_tool = "ok"
    /\ go_parser_path = PathIs(CustomPath)
    /\ located = [NoLocate EXCEPT !.done = TRUE, !.arg = CustomPath]

\* between constructions an executable or main.go is installed or removed,
\* the Go toolchain is installed, broken or removed
SetDisk(p) ==
    /\ disk' = IF p \in disk THEN disk \ {p} ELSE disk \cup {p}
    /\ UNCHANGED <<envVars, cache, tmpfs, threadVars, lastOk, caller, cdVars,
                   convVars, aggVars, mainVars, go_tool, go_parser_path, located>>

SetGo(g) ==
    /\ g # go_tool
    /\ go_tool' = g
    /\ UNCHANGED <<envVars, cache, tmpfs, threadVars, lastOk, caller, cdVars,
                   convVars, aggVars, mainVars, disk, go_parser_path, located>>

(***************************************************************************)
(* Spec: one caller uses the bridge, one parse_aep call at a time.         *)
(***************************************************************************)
InitThreads ==
    /\ pc = [t \in Threads |-> "idle"]
    /\ path = [t \in Threads |-> FilePool[1]]
    /\ uc = [t \in Threads |-> TRUE]
    /\ tmp = [t \in Threads |-> 0]
    /\ meta = [t \in Threads |-> NoMeta]
    /\ proc = [t \in Threads |-> NoProc]
    /\ pend = [t \in Threads |-> NoRet]
    /\ ret = [t \in Threads |-> NoRet]
    /\ invoked = [t \in Threads |-> FALSE]
    /\ created = [t \in Threads |-> FALSE]
    /\ caller = [t \in Threads |-> "api"]

InitCatalog ==
    /\ cd_listing = <<>>
    /\ cd_todo = <<>>
    /\ cd_results = <<>>
    /\ cd_printed = <<>>
    /\ cd_ret = NoValue

InitConvert ==
    /\ conv_in = NoMeta
    /\ conv_seed = 0
    /\ conv_out = NoRet
    /\ conv_again = NoAgain

InitReport ==
    /\ catalog_data = <<>>
    /\ report = NoReport
    /\ markdown = NoMarkdown

InitMain ==
    /\ cmd = NoCmd
    /\ m_exit = NoExit
    /\ outfile = NoValue
    /\ stdout = <<>>

\* __init__: self.cache = {}
InitBridge ==
    /\ cache = <<>>
    /\ tmpfs = <<>>
    /\ lastOk = <<>>

Init ==
    /\ fstate \in [Files -> ParseFileStates]
    /\ enginePresent \in BOOLEAN
    /\ InitBridge
    /\ InitThreads
    /\ InitCatalog /\ InitConvert /\ InitReport /\ InitMain /\ InitLocated

Next ==
    \/ \E f \in Files, useCache \in BOOLEAN : ParseAep(MainThread, f, useCache)
    \/ ParseStep(MainThread)
    \/ \E f \in Files, st \in ParseFileStates : SetFile(f, st)
    \/ SetEngine

Spec == Init /\ [][Next]_vars

(***************************************************************************)
(* SpecConc: the threads of a pool share one bridge and each parses the    *)
(* same, unchanged file once (test_concurrent_parsing).  Nothing in        *)
(* parse_aep takes a lock, so the steps of the calls interleave freely.    *)
(***************************************************************************)
SharedFile == FilePool[1]

Submit(t) ==
    /\ ret[t].kind = "none"
    /\ ParseAep(t, SharedFile, TRUE)

InitConc ==
    /\ fstate \in [Files -> ParseFileStates]
    /\ enginePresent \in BOOLEAN
    /\ InitBridge
    /\ InitThreads
    /\ InitCatalog /\ InitConvert /\ InitReport /\ InitMain /\ InitLocated

NextConc == \E t \in Threads : Submit(t) \/ ParseStep(t)

SpecConc == InitConc /\ [][NextConc]_vars

(***************************************************************************)
(* AEPCatalogBridge.catalog_directory                                      *)
(***************************************************************************)
\* directory.rglob(pattern): the matching directory entries (a dangling
\* entry is listed too), in the order the file system yields them
Listings == {l \in [1..DirSize -> DirFiles] :
                \A i, j \in 1..DirSize : l[i] = l[j] => i = j}

\* the line the except clause prints: f"Error parsing {aep_file}: {e}"
ErrorLine(f, e) == <<"Error parsing ", f, ": ">> \o e.msg

\* catalog_directory(directory) is called: results = []
EnterCatalog(t, l) ==
    /\ cd_listing' = l
    /\ cd_todo' = l
    /\ cd_results' = <<>>
    /\ cd_printed' = <<>>
    /\ cd_ret' = NoValue
    /\ pc' = [pc EXCEPT ![t] = "cd_loop"]
    /\ ret' = [ret EXCEPT ![t] = NoRet]

CatalogDirectory(t) ==
    /\ pc[t] = "idle"
    /\ \E l \in Listings : EnterCatalog(t, l)
    /\ UNCHANGED <<envVars, cache, tmpfs, lastOk, caller, path, uc, tmp, meta,
                   proc, pend, invoked, created, beyond>>

\* for aep_file in directory.rglob(pattern): ... self.parse_aep(str(aep_file))
\* and, when the iteration ends, return results
CD_Loop(t) ==
    /\ pc[t] = "cd_loop"
    /\ IF cd_todo = <<>>
       THEN /\ cd_ret' = PyList(cd_results)
            /\ pc' = [pc EXCEPT ![t] = IF cmd.command = "none" THEN "idle"
                                       ELSE "m_convert"]
            /\ caller' = [caller EXCEPT ![t] = "api"]
            /\ UNCHANGED <<cd_todo, path, uc, tmp, meta, proc, pend, ret,
                           invoked, created>>
       ELSE /\ Call(t, Head(cd_todo), TRUE)
            /\ cd_todo' = Tail(cd_todo)
            /\ caller' = [caller EXCEPT ![t] = "catalog"]
            /\ UNCHANGED cd_ret
    /\ UNCHANGED <<envVars, cache, tmpfs, lastOk, cd_listing, cd_results,
                   cd_printed, beyond>>

\* results.append(metadata)  /  except Exception as e: print(...); continue
ResultsAfter(r) == IF r.kind = "ok" THEN Append(cd_results, r.value) ELSE cd_results
\* (variant: the except clause swallows the error without printing)
PrintedAfter_Silent(f, r) == cd_printed

PrintedAfter(f, r) ==
    IF r.kind = "ok" THEN cd_printed ELSE Append(cd_printed, ErrorLine(f, r))

CD_After(t) ==
    /\ pc[t] = "cd_after"
    /\ cd_results' = ResultsAfter(ret[t])
    /\ cd_printed' = PrintedAfter(path[t], ret[t])
    /\ pc' = [pc EXCEPT ![t] = "cd_loop"]
    /\ UNCHANGED <<envVars, cache, tmpfs, lastOk, caller, cd_listing, cd_todo,
                   cd_ret, path, uc, tmp, meta, proc, pend, ret, invoked, created,
                   beyond>>

CatalogStep(t) == CD_Loop(t) \/ CD_After(t)

(***************************************************************************)
(* SpecBatch: one caller catalogs a directory holding DirFiles, again and  *)
(* again through one bridge; the directory does not change.                *)
(***************************************************************************)
InitBatch ==
    /\ fstate \in [DirFiles -> ParseFileStates]
    /\ enginePresent \in BOOLEAN
    /\ InitBridge
    /\ InitThreads
    /\ InitCatalog /\ InitConvert /\ InitReport /\ InitMain /\ InitLocated

NextBatch ==
    \/ CatalogDirectory(MainThread)
    \/ CatalogStep(MainThread)
    \/ ParseStep(MainThread)

SpecBatch == InitBatch /\ [][NextBatch]_vars

(***************************************************************************)
(* AEPCatalogBridge.convert_to_mobot_format                                *)
(***************************************************************************)
OutCaps == <<"text_replacement", "image_replacement", "color_control",
             "audio_replacement", "data_driven", "expressions", "modular">>

Range(s) == {s[i] : i \in 1..Len(s)}
Min(S) == CHOOSE x \in S : \A y \in S : x <= y
IndexOf(x, s) == Min({i \in 1..Len(s) : s[i] = x})

\* d[k] for each k of keys in turn: the key of the KeyError, "" if none
FirstKeyMissing(d, keys) ==
    LET miss == {i \in 1..Len(keys) : keys[i] \notin DOMAIN d}
    IN IF miss = {} THEN "" ELSE keys[Min(miss)]

\* metadata[k]
Top(m, k) == IF k \in DOMAIN m THEN "" ELSE k

\* x[k1], x[k2], ... for x in metadata[k]
Items(m, k, keys) ==
    IF k \notin DOMAIN m THEN k
    ELSE LET bad == {i \in 1..Len(m[k]) : FirstKeyMissing(m[k][i], keys) # ""}
         IN IF bad = {} THEN "" ELSE FirstKeyMissing(m[k][Min(bad)], keys)

\* metadata["capabilities"]["has_..."], one flag after the other
Flags(m) ==
    IF "capabilities" \notin DOMAIN m THEN "capabilities"
    ELSE FirstKeyMissing(m["capabilities"], RawFlags)

\* {... m["name"], m["type"], m["is_placeholder"]} for m in media_assets
\* if m["is_placeholder"]
MediaItems(m) ==
    IF "media_assets" \notin DOMAIN m THEN "media_assets"
    ELSE LET a == m["media_assets"]
             Miss(i) == IF "is_placeholder" \notin DOMAIN a[i] THEN "is_placeholder"
                        ELSE IF a[i]["is_placeholder"]
                             THEN FirstKeyMissing(a[i], <<"name", "type">>)
                             ELSE ""
             bad == {i \in 1..Len(a) : Miss(i) # ""}
         IN IF bad = {} THEN "" ELSE Miss(Min(bad))

\* the subscripts of the dict display in evaluation order; the first one
\* that fails raises KeyError
KeyErrorOf(m) ==
    LET chain == << Top(m, "file_path"), Top(m, "file_name"), Top(m, "parsed_at"),
                    Items(m, "compositions", <<"layer_count">>),
                    Flags(m),
                    Top(m, "categories"), Top(m, "tags"),
                    Items(m, "text_layers", <<"layer_name", "source_text", "comp_id">>),
                    MediaItems(m),
                    Items(m, "opportunities",
                          <<"type", "description", "difficulty", "impact">>),
                    Top(m, "bit_depth"), Top(m, "expression_engine"),
                    Items(m, "effects", <<"name">>),
                    Items(m, "compositions", <<"width", "height">>) >>
        raised == {i \in 1..Len(chain) : chain[i] # ""}
    IN IF raised = {} THEN "" ELSE chain[Min(raised)]

RECURSIVE SumLayers(_)
SumLayers(comps) ==
    IF comps = <<>> THEN 0 ELSE Head(comps).layer_count + SumLayers(Tail(comps))

\* f"{c['width']}x{c['height']}"
Resolution(c) == <<c.width, "x", c.height>>
ResBefore(a, b) == a[1] < b[1] \/ (a[1] = b[1] /\ a[3] < b[3])

\* list(set(...)): the iteration order of a set of strings depends on the
\* interpreter's hash seed
HashSeeds == {0, 1}
RECURSIVE ListOfSet(_, _)
ListOfSet(S, seed) ==
    IF S = {} THEN <<>>
    ELSE LET x == IF seed = 0
                  THEN CHOOSE a \in S : \A b \in S \ {a} : ResBefore(a, b)
                  ELSE CHOOSE a \in S : \A b \in S \ {a} : ResBefore(b, a)
         IN <<x>> \o ListOfSet(S \ {x}, seed)

IsPlaceholder(a) == a.is_placeholder

MobotFormat(m, seed) ==
    [template_path |-> m.file_path,
     template_name |-> m.file_name,
     analyzed_at |-> m.parsed_at,
     compositions |-> Len(m.compositions),
     total_layers |-> SumLayers(m.compositions),
     capabilities |-> [k \in Range(OutCaps) |->
                          m.capabilities[RawFlags[IndexOf(k, OutCaps)]]],
     categories |-> m.categories,
     tags |-> m.tags,
     customizable_elements |->
        [text_layers |-> [i \in 1..Len(m.text_layers) |->
                            [name |-> m.text_layers[i].layer_name,
                             default_text |-> m.text_layers[i].source_text,
                             comp |-> m.text_layers[i].comp_id]],
         media_placeholders |->
            LET ph == SelectSeq(m.media_assets, IsPlaceholder)
            IN [i \in 1..Len(ph) |-> [name |-> ph[i].name, type |-> ph[i].type,
                                      placeholder |-> ph[i].is_placeholder]]],
     usage_scenarios |-> [i \in 1..Len(m.opportunities) |->
                            [type |-> m.opportunities[i].type,
                             description |-> m.opportunities[i].description,
                             difficulty |-> m.opportunities[i].difficulty,
                             impact |-> m.opportunities[i].impact]],
     technical_details |->
        [bit_depth |-> m.bit_depth,
         expression_engine |-> m.expression_engine,
         effects_used |-> [i \in 1..Len(m.effects) |-> m.effects[i].name],
         resolutions |-> ListOfSet({Resolution(m.compositions[i]) :
                                       i \in 1..Len(m.compositions)}, seed)]]

ConvertToMobotFormat(m, seed) ==
    IF KeyErrorOf(m) # "" THEN Err("KeyError", <<KeyErrorOf(m)>>)
    ELSE Ok(MobotFormat(m, seed))

(***************************************************************************)
(* SpecConv: convert_to_mobot_format applied to one raw metadata document. *)
(***************************************************************************)
MaxMissing == 1       \* top-level keys left out of the document
MaxAbsentFlags == 1   \* capability flags left out of the capability set

TopKeys == {"file_path", "file_name", "parsed_at", "compositions",
            "capabilities", "categories", "tags", "text_layers", "media_assets",
            "opportunities", "bit_depth", "expression_engine", "effects"}
FlagSet == Range(RawFlags)
ExtraFlag == "has_3d_layers"

\* capability sets: some flags absent, all false / all true / exactly one
\* true, with or without a key the converter does not know
CapsInputs ==
    {[k \in D \cup X |-> k \in T] :
        D \in {d \in SUBSET FlagSet : Cardinality(FlagSet \ d) <= MaxAbsentFlags},
        X \in {{}, {ExtraFlag}},
        T \in {{}, FlagSet \cup {ExtraFlag}} \cup {{k} : k \in FlagSet}}

CompsInputs == {<<>>, <<Comp("Main", 1920, 1080, 2)>>,
                <<Comp("Main", 1920, 1080, 2), Comp("Square", 1080, 1080, 3),
                  Comp("Alt", 1920, 1080, 1)>>}

RawInputs ==
    {Without(MkRaw("a.aep", 1, comps, caps, <<"Promo", "Promo">>, <<"text">>,
                   <<TextLayer("title")>>,
                   <<Media("logo", TRUE), Media("bg", FALSE)>>,
                   <<Opp("swap title")>>, <<Effect("Glow")>>), missing) :
        comps \in CompsInputs, caps \in CapsInputs,
        missing \in {K \in SUBSET TopKeys : Cardinality(K) <= MaxMissing}}

InitConv ==
    /\ fstate = [f \in Files |-> "good"]
    /\ enginePresent = TRUE
    /\ InitBridge
    /\ InitThreads
    /\ InitCatalog /\ InitReport /\ InitMain /\ InitLocated
    /\ conv_in \in RawInputs
    /\ conv_seed \in HashSeeds
    /\ conv_out = NoRet
    /\ conv_again = NoAgain

Convert ==
    /\ conv_out.kind = "none"
    /\ conv_out' = ConvertToMobotFormat(conv_in, conv_seed)
    /\ UNCHANGED <<envVars, cache, tmpfs, threadVars, lastOk, caller, cdVars,
                   conv_in, conv_seed, conv_again, aggVars, mainVars, locVars>>

NextConv == Convert

SpecConv == InitConv /\ [][NextConv]_vars

(***************************************************************************)
(* SpecRerun: the same document is converted a second time, by the same    *)
(* process or by another run of the program (which has its own hash seed). *)
(***************************************************************************)
ConvertAgain(seed) ==
    /\ conv_out.kind # "none"
    /\ conv_again.out.kind = "none"
    /\ conv_again' = [seed |-> seed, out |-> ConvertToMobotFormat(conv_in, seed)]
    /\ UNCHANGED <<envVars, cache, tmpfs, threadVars, lastOk, caller, cdVars,
                   conv_in, conv_seed, conv_out, aggVars, mainVars, locVars>>

NextRerun ==
    \/ Convert
    \/ \E seed \in HashSeeds : ConvertAgain(seed)

SpecRerun == InitConv /\ [][NextRerun]_vars

(***************************************************************************)
(* AEPCatalogBridge.generate_catalog_report and its helpers.  A Python     *)
(* dict is a sequence of [key, count] in insertion order.                  *)
(***************************************************************************)
\* d.get(k, default)
Get(d, k, default) == IF k \in DOMAIN d THEN d[k] ELSE default

\* for v in values: counts[v] = counts.get(v, 0) + 1
RECURSIVE CountInto(_, _)
CountInto(counts, values) ==
    IF values = <<>> THEN counts
    ELSE LET v == Head(values)
             at == {i \in 1..Len(counts) : counts[i].key = v}
             next == IF at = {} THEN Append(counts, [key |-> v, count |-> 1])
                     ELSE [counts EXCEPT ![Min(at)].count = @ + 1]
         IN CountInto(next, Tail(values))

\* for template in catalog_data: for v in template.get(field, []): ...
RECURSIVE AggregateField(_, _, _)
AggregateField(data, field, counts) ==
    IF data = <<>> THEN counts
    ELSE AggregateField(Tail(data), field,
                        CountInto(counts, Get(Head(data), field, <<>>)))

AggregateCategories(data) == AggregateField(data, "categories", <<>>)
AggregateTags(data) == AggregateField(data, "tags", <<>>)

\* sum(1 for t in catalog_data if t.get("capabilities", {}).get(cap, False))
CountWith(data, cap) ==
    Cardinality({i \in 1..Len(data) :
                    Get(Get(data[i], "capabilities", <<>>), cap, FALSE)})

Report(data, now) ==
    [written |-> TRUE,
     catalog_version |-> "2.0",
     generated_at |-> now,
     total_templates |-> Len(data),
     parser |-> "Go-Python Bridge",
     templates |-> data,
     summary |-> [total_templates |-> Len(data),
                  with_text_replacement |-> CountWith(data, "text_replacement"),
                  with_image_replacement |-> CountWith(data, "image_replacement"),
                  modular_templates |-> CountWith(data, "modular")],
     categories |-> AggregateCategories(data),
     tags |-> AggregateTags(data)]

\* sorted(d.items(), key=lambda x: x[1], reverse=True): stable, so items
\* with equal counts keep their insertion order
\* (a sort that is not stable: an item goes before those of equal count)
RECURSIVE InsertDesc_Unstable(_, _)
InsertDesc_Unstable(sorted, x) ==
    IF sorted = <<>> THEN <<x>>
    ELSE IF Head(sorted).count > x.count
         THEN <<Head(sorted)>> \o InsertDesc_Unstable(Tail(sorted), x)
         ELSE <<x>> \o sorted

RECURSIVE InsertDesc(_, _)
InsertDesc(sorted, x) ==
    IF sorted = <<>> THEN <<x>>
    ELSE IF Head(sorted).count >= x.count
         THEN <<Head(sorted)>> \o InsertDesc(Tail(sorted), x)
         ELSE <<x>> \o sorted

RECURSIVE SortedByCountDesc(_)
SortedByCountDesc(items) ==
    IF items = <<>> THEN <<>>
    ELSE InsertDesc(SortedByCountDesc(SubSeq(items, 1, Len(items) - 1)),
                    items[Len(items)])

\* the capability lines of one template section: only enabled ones
EnabledCaps(t) == SelectSeq(OutCaps, LAMBDA c : t.capabilities[c])

\* _generate_markdown_report: the lines that carry data
Markdown(rep) ==
    [written |-> TRUE,
     generated |-> rep.generated_at,
     total |-> rep.total_templates,
     summary |-> <<rep.summary.with_text_replacement,
                   rep.summary.with_image_replacement,
                   rep.summary.modular_templates>>,
     categories |-> SortedByCountDesc(rep.categories),
     tags |-> SortedByCountDesc(rep.tags),
     details |-> [i \in 1..Len(rep.templates) |->
                    [name |-> rep.templates[i].template_name,
                     path |-> rep.templates[i].template_path,
                     categories |-> rep.templates[i].categories,
                     tags |-> rep.templates[i].tags,
                     capabilities |-> EnabledCaps(rep.templates[i]),
                     usage_scenarios |-> Get(rep.templates[i], "usage_scenarios", <<>>)]]]

(***************************************************************************)
(* SpecAgg: generate_catalog_report applied to one list of entries.        *)
(***************************************************************************)
MaxEntries == 3    \* entries in the list
MaxValues == 2     \* categories (or tags) listed by one entry

CategoryNames == {"A", "B", "C"}
TagNames == {"x"}
SeqsUpTo(S, n) == UNION {[1..k -> S] : k \in 0..n}

\* entries as the converter returns them; categories and tags are passed
\* through from the engine without deduplication
EntryOf(cats, tgs) ==
    MobotFormat(MkRaw("a.aep", 1, <<Comp("Main", 1920, 1080, 2)>>, AllCaps(TRUE),
                      cats, tgs, <<>>, <<>>, <<>>, <<>>), 0)

EntryInputs ==
    {EntryOf(c, <<>>) : c \in SeqsUpTo(CategoryNames, MaxValues)}
    \cup {EntryOf(<<>>, g) : g \in SeqsUpTo(TagNames, MaxValues)}

InitAgg ==
    /\ fstate = [f \in Files |-> "good"]
    /\ enginePresent = TRUE
    /\ InitBridge
    /\ InitThreads
    /\ InitCatalog /\ InitConvert /\ InitMain /\ InitLocated
    /\ catalog_data \in SeqsUpTo(EntryInputs, MaxEntries)
    /\ report = NoReport
    /\ markdown = NoMarkdown

GenerateCatalogReport ==
    /\ ~report.written
    /\ \E now \in Stamps :
          /\ report' = Report(catalog_data, now)
          /\ markdown' = Markdown(Report(catalog_data, now))
    /\ UNCHANGED <<envVars, cache, tmpfs, threadVars, lastOk, caller, cdVars,
                   convVars, catalog_data, mainVars, locVars>>

NextAgg == GenerateCatalogReport

SpecAgg == InitAgg /\ [][NextAgg]_vars

(***************************************************************************)
(* SpecOrder: generate_catalog_report applied to a list of entries in      *)
(* which several categories, or several tags, are listed.                  *)
(***************************************************************************)
OrderEntries == 2   \* entries in the list
OrderValues == 2    \* categories (or tags) listed by one entry

OrderTagNames == {"x", "y"}

OrderInputs ==
    {EntryOf(c, <<>>) : c \in SeqsUpTo(CategoryNames, OrderValues)}
    \cup {EntryOf(<<>>, g) : g \in SeqsUpTo(OrderTagNames, OrderValues)}

InitOrder ==
    /\ fstate = [f \in Files |-> "good"]
    /\ enginePresent = TRUE
    /\ InitBridge
    /\ InitThreads
    /\ InitCatalog /\ InitConvert /\ InitMain /\ InitLocated
    /\ catalog_data \in SeqsUpTo(OrderInputs, OrderEntries)
    /\ report = NoReport
    /\ markdown = NoMarkdown

SpecOrder == InitOrder /\ [][NextAgg]_vars

(***************************************************************************)
(* The command-line interface (__main__): catalog and report.              *)
(***************************************************************************)
Converts(c) == c.command = "report" \/ c.mobot_format

\* a process is started: bridge = AEPCatalogBridge() and the command calls
\* bridge.catalog_directory(args.path)
Main(t, command, mobot, output) ==
    /\ pc[t] = "idle"
    /\ cmd.command = "none"
    /\ cache = <<>>
    /\ cmd' = [command |-> command, mobot_format |-> mobot, output |-> output]
    /\ \E l \in Listings : EnterCatalog(t, l)
    /\ UNCHANGED <<envVars, cache, tmpfs, lastOk, caller, path, uc, tmp, meta,
                   proc, pend, invoked, created, convVars, aggVars, m_exit,
                   outfile, stdout, locVars>>

\* catalog_data = [bridge.convert_to_mobot_format(m) for m in catalog_data]
ConvertAll(items, seed) ==
    [i \in 1..Len(items) |-> ConvertToMobotFormat(items[i], seed)]
Raised(rs) == {i \in 1..Len(rs) : rs[i].kind = "err"}

\* an exception raised inside the comprehension is not caught anywhere in
\* __main__: the interpreter prints the traceback and exits with status 1
M_Convert(t) ==
    /\ pc[t] = "m_convert"
    /\ IF Converts(cmd)
       THEN \E seed \in HashSeeds :
              LET rs == ConvertAll(cd_ret.items, seed)
              IN IF Raised(rs) # {}
                 THEN /\ m_exit' = [code |-> 1, error |-> rs[Min(Raised(rs))].etype]
                      /\ pc' = [pc EXCEPT ![t] = "idle"]
                      /\ UNCHANGED catalog_data
                 ELSE /\ catalog_data' = [i \in 1..Len(rs) |-> rs[i].value]
                      /\ pc' = [pc EXCEPT ![t] = "m_write"]
                      /\ UNCHANGED m_exit
       ELSE /\ catalog_data' = cd_ret.items
            /\ pc' = [pc EXCEPT ![t] = "m_write"]
            /\ UNCHANGED m_exit
    /\ UNCHANGED <<envVars, cache, tmpfs, lastOk, caller, cdVars, path, uc, tmp,
                   meta, proc, pend, ret, invoked, created, convVars, report,
                   markdown, cmd, outfile, stdout, locVars>>

\* catalog: json.dump(catalog_data) to --output, or print the count;
\* report: bridge.generate_catalog_report(catalog_data, output_path)
M_Write(t) ==
    /\ pc[t] = "m_write"
    /\ IF cmd.command = "report"
       THEN /\ \E now \in Stamps :
                 /\ report' = Report(catalog_data, now)
                 /\ markdown' = Markdown(Report(catalog_data, now))
            /\ stdout' = <<"Report generated">>
            /\ UNCHANGED outfile
       ELSE /\ outfile' = IF cmd.output THEN PyList(catalog_data) ELSE outfile
            /\ stdout' = IF cmd.output THEN stdout ELSE <<"Cataloged", Len(catalog_data)>>
            /\ UNCHANGED <<report, markdown>>
    /\ m_exit' = [code |-> 0, error |-> ""]
    /\ pc' = [pc EXCEPT ![t] = "idle"]
    /\ UNCHANGED <<envVars, cache, tmpfs, lastOk, caller, cdVars, path, uc, tmp,
                   meta, proc, pend, ret, invoked, created, convVars,
                   catalog_data, cmd, locVars>>

(***************************************************************************)
(* SpecMain: one run of the catalog or report command on a directory.      *)
(***************************************************************************)
MainFileStates == {"good", "nocaps", "corrupt"}

InitMainSpec ==
    /\ fstate \in [DirFiles -> MainFileStates]
    /\ enginePresent \in BOOLEAN
    /\ InitBridge
    /\ InitThreads
    /\ InitCatalog /\ InitConvert /\ InitReport /\ InitMain /\ InitLocated

NextMain ==
    \/ \E command \in {"catalog", "report"}, mobot, output \in BOOLEAN :
          Main(MainThread, command, mobot, output)
    \/ CatalogStep(MainThread)
    \/ ParseStep(MainThread)
    \/ M_Convert(MainThread)
    \/ M_Write(MainThread)

SpecMain == InitMainSpec /\ [][NextMain]_vars

(***************************************************************************)
(* SpecLocate: bridges are constructed one after another on a machine      *)
(* whose engine paths and Go toolchain change in between.                  *)
(***************************************************************************)
InitLocate ==
    /\ fstate = [f \in Files |-> "good"]
    /\ enginePresent = TRUE
    /\ InitBridge
    /\ InitThreads
    /\ InitCatalog /\ InitConvert /\ InitReport /\ InitMain
    /\ disk \in SUBSET EnginePaths
    /\ go_tool \in GoTools
    /\ go_parser_path = NoPath
    /\ located = NoLocate

NextLocate ==
    \/ \E arg \in ParserArgs : NewBridge(arg)
    \/ \E p \in EnginePaths : SetDisk(p)
    \/ \E g \in GoTools : SetGo(g)

SpecLocate == InitLocate /\ [][NextLocate]_vars

(***************************************************************************)
(* Properties of parse_aep in sequential use (Spec)                        *)
(***************************************************************************)
Returns(t) == pc[t] # "idle" /\ pc'[t] = "idle"
InCall(t) == pc[t] \in {"p_run", "p_read", "p_store", "p_finally"}
NotFound(f) == Err("FileNotFoundError", <<"AEP file not found: ", f>>)

\* C1: a use_cache call on an existing file whose path is a cache key (in
\* particular one that an earlier use_cache call returned metadata for)
\* returns exactly the cached (earlier) metadata, starts no engine process
\* and creates no temporary file.
C1_CacheIdempotence ==
    [][\A t \in Threads :
         /\ (pc[t] = "p_exists" /\ pc'[t] # "p_exists"
                /\ fstate[path[t]] # "dangling") =>
               pc'[t] = "p_cache"
         /\ (pc[t] = "p_cache" /\ pc'[t] # "p_cache" /\ uc[t]) =>
               /\ path[t] \in DOMAIN cache =>
                     /\ Returns(t)
                     /\ ret'[t] = Ok(cache[path[t]])
                     /\ ~invoked'[t] /\ ~created'[t]
                     /\ cache' = cache /\ tmpfs' = tmpfs
               /\ path[t] \in DOMAIN lastOk =>
                     /\ Returns(t)
                     /\ ret'[t] = Ok(lastOk[path[t]])
                     /\ ~invoked'[t] /\ ~created'[t]]_vars

\* a second use_cache call has returned the first call's metadata from the cache
C1_Witness ==
    /\ pc[MainThread] = "idle" /\ uc[MainThread]
    /\ ret[MainThread].kind = "ok" /\ ~invoked[MainThread]
    /\ path[MainThread] \in DOMAIN lastOk
    /\ ret[MainThread].value = lastOk[path[MainThread]]

\* C3: every temporary output file on disk belongs to a parse_aep call that
\* is still between creating it and its finally clause; once a call has
\* returned or raised, on whatever path, its temporary file is gone.
C3_TempRelease ==
    /\ DOMAIN tmpfs = {tmp[t] : t \in {u \in Threads : InCall(u)}}
    /\ AllIdle => DOMAIN tmpfs = {}

\* a call created a temporary file, failed to decode the output and returned
C3_Witness ==
    /\ pc[MainThread] = "idle" /\ created[MainThread]
    /\ ret[MainThread].etype = "JSONDecodeError"
    /\ DOMAIN tmpfs = {}

\* C9: parse_aep on a path that does not exist raises the not-found error,
\* whatever the cache holds, without starting the engine, without creating
\* a temporary file and without changing the cache.
C9_InputNotFound ==
    [][\A t \in Threads :
         (Returns(t) /\ fstate[path[t]] = "dangling") =>
            /\ ret'[t] = NotFound(path[t])
            /\ ~invoked'[t] /\ ~created'[t]
            /\ cache' = cache /\ tmpfs' = tmpfs]_vars

\* the not-found error was raised for a path that is a cache key
C9_Witness ==
    /\ pc[MainThread] = "idle"
    /\ ret[MainThread] = NotFound(path[MainThread])
    /\ fstate[path[MainThread]] = "dangling"
    /\ path[MainThread] \in DOMAIN cache
    /\ uc[MainThread]

\* C10: a call raises RuntimeError("Go parser failed: <stderr>") exactly
\* when its engine process ran and exited non-zero; an exit status of zero
\* with readable output succeeds whatever was printed on stderr; the cache
\* changes only in the step that stores a successfully read result, so a
\* failed use_cache call leaves its path out of the cache, and a call on an
\* existing path returns without running the engine only on a cache hit.
C10_InvocationOutcome ==
    [][/\ \A t \in Threads : Returns(t) =>
            /\ (ret'[t].etype = "RuntimeError") <=>
                  (proc[t].ran /\ proc[t].returncode # 0)
            /\ ret'[t].etype = "RuntimeError" =>
                  ret'[t].msg = <<"Go parser failed: ", proc[t].stderr>>
            /\ (proc[t].ran /\ proc[t].returncode = 0
                   /\ fstate[path[t]] \in {"good", "nocaps"}) =>
                  ret'[t].kind = "ok"
            /\ (ret'[t].kind = "err" /\ invoked'[t] /\ uc[t]) =>
                  path[t] \notin DOMAIN cache'
            /\ (fstate[path[t]] # "dangling" /\ ~invoked'[t]) =>
                  (uc[t] /\ path[t] \in DOMAIN cache)
       /\ cache' # cache =>
            \E t \in Threads : /\ pc[t] = "p_store"
                               /\ pend'[t] = Ok(meta[t])
                               /\ cache' = Put(cache, path[t], meta[t])]_vars

\* the engine exited non-zero, the call raised RuntimeError with its stderr
\* and the path is still not cached
C10_Witness ==
    /\ pc[MainThread] = "idle" /\ uc[MainThread]
    /\ fstate[path[MainThread]] = "corrupt"
    /\ ret[MainThread] = Err("RuntimeError", <<"Go parser failed: ", ParseFailedDiag>>)
    /\ path[MainThread] \notin DOMAIN cache

(***************************************************************************)
(* Properties of catalog_directory (SpecBatch)                             *)
(***************************************************************************)
CatalogReturned == pc[MainThread] = "idle" /\ cd_ret.type # "NoneType"

\* in an unchanging directory, the files parse_aep cannot parse
Fails(f) == ~enginePresent \/ fstate[f] \in {"dangling", "garbled", "corrupt"}
Failing == {i \in 1..Len(cd_listing) : Fails(cd_listing[i])}
IsOk(f) == ~Fails(f)

\* C2 as stated: with exactly one failing file among the N listed,
\* catalog_directory returns the N-1 results together with an errors list
\* holding exactly one (path, reason) entry.
C2_ReturnsErrorsList ==
    (CatalogReturned /\ Cardinality(Failing) = 1) =>
        /\ cd_ret.type = "tuple"
        /\ Len(cd_ret.items) = 2
        /\ Len(cd_ret.items[1]) = Len(cd_listing) - 1
        /\ Len(cd_ret.items[2]) = 1

\* C2 as amended: catalog_directory visits every listed file and returns a
\* plain list holding the metadata of the files that parsed, in enumeration
\* order; each failing file is left out of the list and reported by one
\* printed line "Error parsing <path>: <reason>", in enumeration order, so
\* one failing file among N gives N-1 results and exactly one printed line.
C2_PartialFailureIsolation ==
    CatalogReturned =>
        LET okFiles == SelectSeq(cd_listing, IsOk)
            failFiles == SelectSeq(cd_listing, Fails)
        IN /\ cd_todo = <<>>
           /\ cd_ret.type = "list"
           /\ Len(cd_ret.items) = Len(okFiles)
           /\ \A i \in 1..Len(okFiles) : cd_ret.items[i].file_path = okFiles[i]
           /\ Len(cd_printed) = Len(failFiles)
           /\ \A i \in 1..Len(failFiles) :
                 /\ cd_printed[i][1] = "Error parsing "
                 /\ cd_printed[i][2] = failFiles[i]
                 /\ Len(cd_printed[i]) > 3
                 /\ fstate[failFiles[i]] = "dangling" =>
                       cd_printed[i] = ErrorLine(failFiles[i], NotFound(failFiles[i]))
                 /\ (enginePresent /\ fstate[failFiles[i]] = "corrupt") =>
                       cd_printed[i][5] = ParseFailedDiag
           /\ Cardinality(Failing) = 1 =>
                 /\ Len(cd_ret.items) = Len(cd_listing) - 1
                 /\ Len(cd_printed) = 1

\* a directory of at least three files, of which exactly the second one
\* listed failed, has been cataloged
C2_Witness ==
    /\ CatalogReturned
    /\ Len(cd_listing) >= 3
    /\ Failing = {2}
    /\ Len(cd_ret.items) = Len(cd_listing) - 1
    /\ Len(cd_printed) = 1

(***************************************************************************)
(* Properties of concurrent parse_aep calls (SpecConc)                     *)
(***************************************************************************)
AllDone == \A t \in Threads : pc[t] = "idle" /\ ret[t].kind # "none"

\* C4: when all workers parsing the same file through one bridge have
\* finished, either all of them returned the same metadata or all of them
\* failed, and two calls in progress never share a temporary output file.
C4_ConcurrencyConsistency ==
    /\ \A t, u \in Threads : (t # u /\ InCall(t) /\ InCall(u)) => tmp[t] # tmp[u]
    /\ AllDone =>
          \/ \A t, u \in Threads : ret[t].kind = "ok" /\ ret[t] = ret[u]
          \/ \A t \in Threads : ret[t].kind = "err"

(***************************************************************************)
(* Properties of convert_to_mobot_format (SpecConv)                        *)
(***************************************************************************)
Converted == conv_out.kind # "none"
EntryKeys == {"template_path", "template_name", "analyzed_at", "compositions",
              "total_layers", "capabilities", "categories", "tags",
              "customizable_elements", "usage_scenarios", "technical_details"}

\* C6: whenever the raw metadata has a capability set (and every other
\* field), the conversion returns an entry whose capability map has exactly
\* the seven fixed keys, a flag being true iff the raw set has it and has it
\* true: absent flags become false, unknown raw keys are ignored.
C6_CapabilityMapComplete ==
    (Converted /\ TopKeys \subseteq DOMAIN conv_in) =>
        /\ conv_out.kind = "ok"
        /\ DOMAIN conv_out.value.capabilities = Range(OutCaps)
        /\ \A i \in 1..Len(OutCaps) :
              conv_out.value.capabilities[OutCaps[i]] =
                 (/\ RawFlags[i] \in DOMAIN conv_in.capabilities
                  /\ conv_in.capabilities[RawFlags[i]])

\* C8: the conversion fails only when one of the required fields (file
\* path, file name, compositions, capabilities) is absent; with any of the
\* optional fields absent it returns a complete entry in which the missing
\* lists are empty.
RequiredKeys == {"file_path", "file_name", "compositions", "capabilities"}

C8_OptionalFieldsDefault ==
    (/\ Converted
     /\ "capabilities" \in DOMAIN conv_in => FlagSet \subseteq DOMAIN conv_in.capabilities) =>
        /\ conv_out.kind = "err" <=> ~(RequiredKeys \subseteq DOMAIN conv_in)
        /\ conv_out.kind = "ok" =>
              /\ DOMAIN conv_out.value = EntryKeys
              /\ "categories" \notin DOMAIN conv_in => conv_out.value.categories = <<>>
              /\ "tags" \notin DOMAIN conv_in => conv_out.value.tags = <<>>
              /\ "opportunities" \notin DOMAIN conv_in =>
                    conv_out.value.usage_scenarios = <<>>
              /\ "text_layers" \notin DOMAIN conv_in =>
                    conv_out.value.customizable_elements.text_layers = <<>>
              /\ "media_assets" \notin DOMAIN conv_in =>
                    conv_out.value.customizable_elements.media_placeholders = <<>>
              /\ "effects" \notin DOMAIN conv_in =>
                    conv_out.value.technical_details.effects_used = <<>>

(***************************************************************************)
(* Properties of generate_catalog_report (SpecAgg)                         *)
(***************************************************************************)
CountOf(counts, v) ==
    LET at == {i \in 1..Len(counts) : counts[i].key = v}
    IN IF at = {} THEN 0 ELSE counts[Min(at)].count

EntriesListing(field, v) ==
    {i \in 1..Len(catalog_data) : v \in Range(catalog_data[i][field])}

\* C7: in the report the count of a category (of a tag) is the number of
\* entries that list it at least once; listing it twice in one entry still
\* counts once.
C7_AggregationCorrectness ==
    report.written =>
        /\ \A v \in CategoryNames :
              CountOf(report.categories, v) = Cardinality(EntriesListing("categories", v))
        /\ \A v \in TagNames :
              CountOf(report.tags, v) = Cardinality(EntriesListing("tags", v))

(***************************************************************************)
(* Properties of the batch commands (SpecMain)                             *)
(***************************************************************************)
Exited == m_exit.code # -1
\* the files whose engine output parses and converts
Convertible(f) == enginePresent /\ fstate[f] = "good"
PathsOf(entries) == [i \in 1..Len(entries) |-> entries[i].template_path]

\* C5: a batch command that converts (report, catalog --mobot-format) never
\* ends with an exception when a file's engine output lacks a required
\* field: that file is skipped with a diagnostic, the others are converted,
\* and the report (the catalog output) is still written with them.
C5_BatchBoundary ==
    (Exited /\ Converts(cmd)) =>
        /\ m_exit.code = 0
        /\ cmd.command = "report" =>
              /\ report.written /\ markdown.written
              /\ PathsOf(report.templates) = SelectSeq(cd_listing, Convertible)
        /\ (cmd.command = "catalog" /\ cmd.output) =>
              /\ outfile.type = "list"
              /\ PathsOf(outfile.items) = SelectSeq(cd_listing, Convertible)

(***************************************************************************)
(* Properties of the engine's resolution (SpecLocate)                      *)
(***************************************************************************)
\* a path was handed to the constructor: it is the engine's path, nothing
\* was looked up, built or written
ExplicitPathUsed ==
    (located.done /\ Truthy(located.arg)) =>
        /\ go_parser_path = PathIs(located.arg)
        /\ ~located.built
        /\ located.wrote = {}

\* none was handed over: the first of the conventional locations that
\* existed is the engine's path, and nothing was built
FirstExistingReturned ==
    (located.done /\ ~Truthy(located.arg)) =>
        \A i \in DOMAIN PossiblePaths :
            (/\ PossiblePaths[i] \in located.before
             /\ \A j \in 1..(i - 1) : PossiblePaths[j] \notin located.before)
            => (go_parser_path = PathIs(PossiblePaths[i]) /\ ~located.built)

\* the build ran only without an explicit path and with no location existing
BuildOnlyAsLastResort ==
    (located.done /\ located.built) =>
        /\ ~Truthy(located.arg)
        /\ \A i \in DOMAIN PossiblePaths : PossiblePaths[i] \notin located.before

\* nothing that existed before the construction was written
NothingOverwritten ==
    located.done => located.wrote \cap located.before = {}

\* a build that did not produce the engine ends in the RuntimeError
\* "Failed to build Go parser: ..." with the text of the build's error
BuildFailureReported ==
    (located.done /\ located.built /\ located.go # "ok") =>
        /\ go_parser_path.kind = "raise"
        /\ go_parser_path.etype = "RuntimeError"
        /\ Len(go_parser_path.msg) = 2
        /\ go_parser_path.msg[1] = "Failed to build Go parser: "
        /\ go_parser_path.msg[2] = IF located.go = "fails"
                                   THEN CalledProcessErrorText
                                   ELSE GoNotFoundText

\* C11: the engine is the explicit path when one is given, else the first
\* existing conventional location; the build runs only when neither is
\* there, so nothing existing is overwritten; a failed build, the build
\* tool being unavailable included, raises the engine-unavailable
\* RuntimeError carrying the build error text.
C11_EngineResolutionOrder ==
    /\ ExplicitPathUsed
    /\ FirstExistingReturned
    /\ BuildOnlyAsLastResort
    /\ NothingOverwritten
    /\ BuildFailureReported

(***************************************************************************)
(* Properties of repeated conversion (SpecRerun)                           *)
(***************************************************************************)
\* the second application ran in the process of the first
SameRunIdentical ==
    (conv_out.kind = "ok" /\ conv_again.out.kind # "none"
        /\ conv_again.seed = conv_seed) => conv_again.out = conv_out

\* C12: two applications of convert_to_mobot_format to the same valid
\* metadata, in the same run or in different runs, return identical
\* entries, the order of the deduplicated resolution strings included.
C12_ConverterDeterminism ==
    (conv_out.kind = "ok" /\ conv_again.out.kind # "none")
        => conv_again.out = conv_out

(***************************************************************************)
(* Properties of the rendered report's ordering (SpecOrder)                *)
(***************************************************************************)
\* the values of a field over the entry list, in the order the counting
\* pass visits them
RECURSIVE Flat(_, _)
Flat(data, field) ==
    IF data = <<>> THEN <<>> ELSE Head(data)[field] \o Flat(Tail(data), field)

FirstAt(values, v) == Min({i \in 1..Len(values) : values[i] = v})

\* lines is counts reordered: descending by count, equal counts in the
\* order of first appearance in values
StablyDescending(lines, counts, values) ==
    /\ Len(lines) = Len(counts)
    /\ \A i \in 1..Len(counts) : \E j \in 1..Len(lines) : lines[j] = counts[i]
    /\ \A i, j \in 1..Len(lines) :
          i < j => /\ lines[i].count >= lines[j].count
                   /\ lines[i].count = lines[j].count
                        => FirstAt(values, lines[i].key) < FirstAt(values, lines[j].key)

\* C13: the rendered report lists the categories, and likewise the tags, in
\* descending order of count, values of equal count in the order in which
\* the counting pass first met them (the sort is stable).
C13_MarkdownOrdering ==
    markdown.written =>
        /\ StablyDescending(markdown.categories, report.categories,
                            Flat(catalog_data, "categories"))
        /\ StablyDescending(markdown.tags, report.tags,
                            Flat(catalog_data, "tags"))

\* three categories were counted, two of them tie and the sort moved a line
C13_Witness ==
    /\ markdown.written
    /\ Len(markdown.categories) = 3
    /\ markdown.categories # report.categories
    /\ \E i \in 1..2 : markdown.categories[i].count = markdown.categories[i + 1].count

(***************************************************************************)
(* Properties of parse_aep(..., use_cache=False) in sequential use (Spec)  *)
(***************************************************************************)
\* C14: a use_cache=False call on an existing file runs the engine even when
\* the path is a cache key, and no step of it changes the cache; an entry,
\* once stored, is never replaced or removed, and a successful use_cache=True
\* call returns the entry of its path, so after a bypass call it returns the
\* value cached earlier and not the bypass call's result.
C14_CacheBypassFrame ==
    [][/\ \A t \in Threads :
            /\ (pc[t] # "idle" /\ ~uc[t]) => cache' = cache
            /\ (Returns(t) /\ ~uc[t] /\ fstate[path[t]] # "dangling") =>
                  (invoked[t] /\ created[t])
            /\ (Returns(t) /\ uc[t] /\ ret'[t].kind = "ok") =>
                  (path[t] \in DOMAIN cache' /\ ret'[t].value = cache'[path[t]])
       /\ \A f \in DOMAIN cache : f \in DOMAIN cache' /\ cache'[f] = cache[f]]_vars

\* a use_cache=False call on a cached path has returned a fresh result that
\* differs from the entry, which is still the earlier one
C14_Witness ==
    /\ pc[MainThread] = "idle"
    /\ ~uc[MainThread]
    /\ invoked[MainThread]
    /\ ret[MainThread].kind = "ok"
    /\ path[MainThread] \in DOMAIN cache
    /\ cache[path[MainThread]] # ret[MainThread].value
    /\ path[MainThread] \in DOMAIN lastOk
    /\ lastOk[path[MainThread]] = cache[path[MainThread]]

====
